---- MODULE Spec2Model ----
(***************************************************************************)
(* A model of static_str_ops (src/src/lib.rs): the global pool of leaked   *)
(* strings STATIC_STRINGS behind its Mutex, the three pool functions       *)
(* staticize / is_staticized / destaticize, the macros static_concat!,     *)
(* static_format! and staticize_once!, and client threads that call them   *)
(* in every interleaving.                                                  *)
(*                                                                         *)
(* A string content is a sequence of one-character strings.  A reference   *)
(* (&'static str) is a number: LitEmpty (0) is the "" literal of the       *)
(* binary, r >= 1 is the r-th allocation given to Box::leak, whose content *)
(* is leaked[r].                                                           *)
(***************************************************************************)
EXTENDS Integers, Sequences, FiniteSets, TLC

\* ------------------------------------------------------------------------
\* Bounds of the model
\* ------------------------------------------------------------------------
\* number of client threads
NumThreads == 2
\* number of top-level calls each thread makes
MaxCalls == 2

Threads == 1..NumThreads

\* ------------------------------------------------------------------------
\* Values
\* ------------------------------------------------------------------------
Empty == <<>>
Hole == "{}"
NoThread == 0
NoRef == -1
\* what a call leaves in place of a result when it panicked
Panicked == -2
LitEmpty == 0

\* The string contents the client threads work with.
Texts == { <<>>, <<"a">>, <<"a", "b">> }

\* Argument lists of the static_concat! invocations of the client: each a
\* sequence of literal fragments.
ConcatCalls ==
    { <<>>,
      << <<"a">> >>,
      << <<"a">>, <<"b">> >>,
      << <<>>, <<"a">>, <<>> >> }

\* Argument lists of the static_format! invocations of the client: none, or a
\* template (characters and holes) followed by the arguments.
FormatCalls ==
    { <<>>,
      << <<"a", "b">> >>,
      << <<Hole, "b">>, <<"a">> >>,
      << <<Hole, Hole>>, <<"a">>, <<>> >> }

\* The staticize_once! call sites of the client.  Site 1 wraps a block that
\* yields a string; site 2 wraps a block that calls static_format! (as
\* tests::tets_staticize_once does through Data::<i32>::typename()).  Both
\* compute the content "a".
Sites == {1, 2}
SiteInterns(s) == s = 2
SiteText(s) == <<"a">>
SiteFormat(s) == << <<Hole>>, <<"a">> >>

\* concat!(f1, ..., fn): the fragments joined in order.
RECURSIVE Concat(_)
Concat(frags) ==
    IF frags = <<>> THEN <<>>
    ELSE Head(frags) \o Concat(Tail(frags))

\* format!(tmpl, args...): each hole replaced by the next argument.
RECURSIVE Format(_, _)
Format(tmpl, args) ==
    IF tmpl = <<>> THEN <<>>
    ELSE IF Head(tmpl) = Hole
         THEN Head(args) \o Format(Tail(tmpl), Tail(args))
         ELSE <<Head(tmpl)>> \o Format(Tail(tmpl), args)

\* ------------------------------------------------------------------------
\* State
\* ------------------------------------------------------------------------
VARIABLES
    pool,       \* STATIC_STRINGS: the set of tracked references
    leaked,     \* the allocations given to Box::leak, in order: their contents
    lock,       \* the holder of the Mutex, or NoThread
    poisoned,   \* the Mutex is poisoned: a holder panicked with the guard
    onceState,  \* per call site: the state of INIT (std::sync::Once)
    gensym,     \* per call site: the static mut $gensym
    called,     \* per call site: how often the wrapped block was evaluated
    pc,         \* per thread: where it is
    stack,      \* per thread: where the running staticize returns to
    op,         \* per thread: the top-level call it makes / made last
    arg,        \* per thread: the content handed to the pool function
    site,       \* per thread: the staticize_once! call site it is in, or 0
    ret,        \* per thread: the reference the last call returned
    flag,       \* per thread: the bool the last call returned
    margs,      \* per thread: the argument list of the macro it invoked
    calls,      \* per thread: number of top-level calls started
    hist,       \* history, per content: "never" tracked, "in" or "out"
    last,       \* history, per content: reference the last staticize returned
                \* since the last removal, or NoRef
    evicted,    \* history: the references destaticize removed
    returned    \* history, per call site: the references its calls returned

vars == << pool, leaked, lock, poisoned, onceState, gensym, called, pc, stack, op, arg,
           site, ret, flag, margs, calls, hist, last, evicted, returned >>

poolVars == << pool, leaked, hist, last, evicted >>
mutex == << lock, poisoned >>
onceVars == << onceState, gensym, called, returned >>

\* The content a reference points to.
ContentOf(r) == IF r = LitEmpty THEN Empty ELSE leaked[r]

\* Content c has an entry in the pool.
TrackedContent(c) == \E r \in pool : ContentOf(r) = c

\* HashSet::get(s): the entries equal to s by content (none, or the one).
\* Variants: a lookup that never finds; a lookup that ignores the content.
Get_Miss(s) == {}

Get_AnyEntry(s) == pool

Get(s) == { r \in pool : ContentOf(r) = s }

\* HashSet::contains(s).  Variant: asks whether anything is tracked.
Contains_NonEmpty(s) == pool # {}

Contains(s) == \E r \in pool : ContentOf(r) = s

\* HashSet::remove(s): the set without the entry equal to s.  Variants: the
\* entry stays; the set is cleared.
Remove_Nothing(s) == pool

Remove_Clear(s) == {}

Remove(s) == { r \in pool : ContentOf(r) # s }

\* What remove(s) does to the leaked allocations: nothing, the set holds
\* &'static str and dropping one frees no memory.  Variant: the removed
\* entry's allocation is given back and its content lost.
LeakedAfterRemove_Freed(s) ==
    [i \in DOMAIN leaked |-> IF i \in pool /\ leaked[i] = s THEN <<"?">> ELSE leaked[i]]

LeakedAfterRemove(s) == leaked

Init ==
    /\ pool = {}
    /\ leaked = <<>>
    /\ lock = NoThread
    /\ poisoned = FALSE
    /\ onceState = [s \in Sites |-> "incomplete"]
    /\ gensym = [s \in Sites |-> LitEmpty]
    /\ called = [s \in Sites |-> 0]
    /\ pc = [t \in Threads |-> "idle"]
    /\ stack = [t \in Threads |-> <<>>]
    /\ op = [t \in Threads |-> "none"]
    /\ arg = [t \in Threads |-> Empty]
    /\ site = [t \in Threads |-> 0]
    /\ ret = [t \in Threads |-> NoRef]
    /\ flag = [t \in Threads |-> FALSE]
    /\ margs = [t \in Threads |-> <<>>]
    /\ calls = [t \in Threads |-> 0]
    /\ hist = [c \in Texts |-> "never"]
    /\ last = [c \in Texts |-> NoRef]
    /\ evicted = {}
    /\ returned = [s \in Sites |-> {}]

\* ------------------------------------------------------------------------
\* The Mutex
\* ------------------------------------------------------------------------
\* STATIC_STRINGS.lock().unwrap(): blocks until the Mutex is free and gives
\* the guard when the Mutex is not poisoned.  Variants: no mutual exclusion;
\* the guard is taken out of a PoisonError.
Acquire_NoMutex(t) == ~poisoned /\ lock' = t /\ UNCHANGED poisoned

Acquire_IgnorePoison(t) == lock = NoThread /\ lock' = t /\ UNCHANGED poisoned

Acquire(t) == lock = NoThread /\ ~poisoned /\ lock' = t /\ UNCHANGED poisoned

\* The guard is dropped.  Variant: the guard is kept.
Release_Forgotten(t) == UNCHANGED << lock, poisoned >>

Release(t) == lock' = NoThread /\ UNCHANGED poisoned

\* A top-level call starts: thread t is between calls and has calls left.
Start(t, o, m, r) ==
    /\ pc[t] = "idle"
    /\ margs' = [margs EXCEPT ![t] = m]
    /\ calls[t] < MaxCalls
    /\ calls' = [calls EXCEPT ![t] = @ + 1]
    /\ op' = [op EXCEPT ![t] = o]
    /\ ret' = [ret EXCEPT ![t] = r]
    /\ flag' = [flag EXCEPT ![t] = FALSE]

\* staticize returns r to the place it was called from.
Return(t, r) ==
    /\ ret' = [ret EXCEPT ![t] = r]
    /\ pc' = [pc EXCEPT ![t] = Head(stack[t])]
    /\ stack' = [stack EXCEPT ![t] = Tail(@)]

\* ------------------------------------------------------------------------
\* staticize
\* ------------------------------------------------------------------------
\* staticize(s): s.into() is boxed, then the lock is requested.
CallStaticize(t, s) ==
    /\ Start(t, "staticize", <<>>, NoRef)
    /\ arg' = [arg EXCEPT ![t] = s]
    /\ site' = [site EXCEPT ![t] = 0]
    /\ stack' = [stack EXCEPT ![t] = <<"idle">>]
    /\ pc' = [pc EXCEPT ![t] = "lock"]
    /\ UNCHANGED << poolVars, mutex, onceVars >>

\* let mut strings = STATIC_STRINGS.lock().unwrap();
StaticizeLock(t) ==
    /\ pc[t] = "lock"
    /\ Acquire(t)
    /\ pc' = [pc EXCEPT ![t] = "get"]
    /\ UNCHANGED << poolVars, onceVars, stack, op, arg, site, ret, flag, margs, calls >>

\* match strings.get(s.as_str()): Some(s) => s returns the tracked entry and
\* drops the guard; None goes on to leak the box.
\* Variant: the guard is dropped after the lookup and the insertion runs
\* without it.
StaticizeGet_DropsGuard(t) ==
    /\ pc[t] = "get"
    /\ IF Get(arg[t]) # {}
       THEN /\ \E r \in Get(arg[t]) :
                  /\ Return(t, r)
                  /\ last' = [last EXCEPT ![arg[t]] = r]
            /\ hist' = [hist EXCEPT ![arg[t]] = "in"]
       ELSE /\ pc' = [pc EXCEPT ![t] = "insert"]
            /\ UNCHANGED << stack, ret, hist, last >>
    /\ Release(t)
    /\ UNCHANGED << pool, leaked, evicted, onceVars, op, arg, site, flag, margs, calls >>

StaticizeGet(t) ==
    /\ pc[t] = "get"
    /\ IF Get(arg[t]) # {}
       THEN /\ \E r \in Get(arg[t]) :
                  /\ Return(t, r)
                  /\ last' = [last EXCEPT ![arg[t]] = r]
            /\ Release(t)
            /\ hist' = [hist EXCEPT ![arg[t]] = "in"]
       ELSE /\ pc' = [pc EXCEPT ![t] = "insert"]
            /\ UNCHANGED << mutex, stack, ret, hist, last >>
    /\ UNCHANGED << pool, leaked, evicted, onceVars, op, arg, site, flag, margs, calls >>

\* None => { let s = Box::leak(s); strings.insert(s); s }
\* Variants: a removed allocation of the same content is tracked again instead
\* of a new one; the new allocation is leaked but not inserted.
StaticizeInsert_Resurrect(t) ==
    /\ pc[t] = "insert"
    /\ LET old == { r \in evicted : ContentOf(r) = arg[t] }
           r == IF old = {} THEN Len(leaked) + 1 ELSE CHOOSE o \in old : TRUE
       IN
         /\ leaked' = IF old = {} THEN Append(leaked, arg[t]) ELSE leaked
         /\ pool' = pool \cup {r}
         /\ Return(t, r)
         /\ last' = [last EXCEPT ![arg[t]] = r]
    /\ Release(t)
    /\ hist' = [hist EXCEPT ![arg[t]] = "in"]
    /\ UNCHANGED << evicted, onceVars, op, arg, site, flag, margs, calls >>

StaticizeInsert_Untracked(t) ==
    /\ pc[t] = "insert"
    /\ LET r == Len(leaked) + 1 IN
         /\ leaked' = Append(leaked, arg[t])
         /\ pool' = pool
         /\ Return(t, r)
         /\ last' = [last EXCEPT ![arg[t]] = r]
    /\ Release(t)
    /\ hist' = [hist EXCEPT ![arg[t]] = "in"]
    /\ UNCHANGED << evicted, onceVars, op, arg, site, flag, margs, calls >>

StaticizeInsert(t) ==
    /\ pc[t] = "insert"
    /\ LET r == Len(leaked) + 1 IN
         /\ leaked' = Append(leaked, arg[t])
         /\ pool' = pool \cup {r}
         /\ Return(t, r)
         /\ last' = [last EXCEPT ![arg[t]] = r]
    /\ Release(t)
    /\ hist' = [hist EXCEPT ![arg[t]] = "in"]
    /\ UNCHANGED << evicted, onceVars, op, arg, site, flag, margs, calls >>

\* ------------------------------------------------------------------------
\* is_staticized
\* ------------------------------------------------------------------------
CallIsStaticized(t, s) ==
    /\ Start(t, "is_staticized", <<>>, NoRef)
    /\ arg' = [arg EXCEPT ![t] = s]
    /\ site' = [site EXCEPT ![t] = 0]
    /\ pc' = [pc EXCEPT ![t] = "is_lock"]
    /\ UNCHANGED << poolVars, mutex, onceVars, stack >>

IsStaticizedLock(t) ==
    /\ pc[t] = "is_lock"
    /\ Acquire(t)
    /\ pc' = [pc EXCEPT ![t] = "is_contains"]
    /\ UNCHANGED << poolVars, onceVars, stack, op, arg, site, ret, flag, margs, calls >>

\* .contains(s), and the temporary guard is dropped
IsStaticizedContains(t) ==
    /\ pc[t] = "is_contains"
    /\ flag' = [flag EXCEPT ![t] = Contains(arg[t])]
    /\ Release(t)
    /\ pc' = [pc EXCEPT ![t] = "idle"]
    /\ UNCHANGED << poolVars, onceVars, stack, op, arg, site, ret, margs, calls >>

\* ------------------------------------------------------------------------
\* destaticize
\* ------------------------------------------------------------------------
CallDestaticize(t, s) ==
    /\ Start(t, "destaticize", <<>>, NoRef)
    /\ arg' = [arg EXCEPT ![t] = s]
    /\ site' = [site EXCEPT ![t] = 0]
    /\ pc' = [pc EXCEPT ![t] = "de_lock"]
    /\ UNCHANGED << poolVars, mutex, onceVars, stack >>

DestaticizeLock(t) ==
    /\ pc[t] = "de_lock"
    /\ Acquire(t)
    /\ pc' = [pc EXCEPT ![t] = "de_remove"]
    /\ UNCHANGED << poolVars, onceVars, stack, op, arg, site, ret, flag, margs, calls >>

\* .remove(s): the entry equal to s leaves the set, its allocation stays; the
\* temporary guard is dropped
DestaticizeRemove(t) ==
    /\ pc[t] = "de_remove"
    /\ flag' = [flag EXCEPT ![t] = Remove(arg[t]) # pool]
    /\ pool' = Remove(arg[t])
    /\ leaked' = LeakedAfterRemove(arg[t])
    /\ evicted' = evicted \cup (pool \ Remove(arg[t]))
    /\ IF Remove(arg[t]) # pool
       THEN /\ hist' = [hist EXCEPT ![arg[t]] = "out"]
            /\ last' = [last EXCEPT ![arg[t]] = NoRef]
       ELSE UNCHANGED << hist, last >>
    /\ Release(t)
    /\ pc' = [pc EXCEPT ![t] = "idle"]
    /\ UNCHANGED << onceVars, stack, op, arg, site, ret, margs, calls >>

\* ------------------------------------------------------------------------
\* static_concat! and static_format!
\* ------------------------------------------------------------------------
\* static_concat!(): the arm ()=>{""} yields the literal; any other argument
\* list goes to staticize(concat!(...)).
CallStaticConcat(t, frags) ==
    /\ site' = [site EXCEPT ![t] = 0]
    /\ IF frags = <<>>
       THEN /\ Start(t, "static_concat", frags, LitEmpty)
            /\ arg' = [arg EXCEPT ![t] = Empty]
            /\ UNCHANGED << pc, stack >>
       ELSE /\ Start(t, "static_concat", frags, NoRef)
            /\ arg' = [arg EXCEPT ![t] = Concat(frags)]
            /\ stack' = [stack EXCEPT ![t] = <<"idle">>]
            /\ pc' = [pc EXCEPT ![t] = "lock"]
    /\ UNCHANGED << poolVars, mutex, onceVars >>

\* static_format!(): the arm ()=>{""} yields the literal; any other argument
\* list goes to staticize(format!(...)).
CallStaticFormat(t, m) ==
    /\ site' = [site EXCEPT ![t] = 0]
    /\ IF m = <<>>
       THEN /\ Start(t, "static_format", m, LitEmpty)
            /\ arg' = [arg EXCEPT ![t] = Empty]
            /\ UNCHANGED << pc, stack >>
       ELSE /\ Start(t, "static_format", m, NoRef)
            /\ arg' = [arg EXCEPT ![t] = Format(Head(m), Tail(m))]
            /\ stack' = [stack EXCEPT ![t] = <<"idle">>]
            /\ pc' = [pc EXCEPT ![t] = "lock"]
    /\ UNCHANGED << poolVars, mutex, onceVars >>

\* ------------------------------------------------------------------------
\* staticize_once!
\* ------------------------------------------------------------------------
\* gensym::gensym!: the cell (static mut $gensym and INIT) of a call site.
\* Variant: every call site gets the same cell.
Cell_Shared(s) == 1

Cell(s) == s

\* A thread reaches the call site s.
CallStaticizeOnce(t, s) ==
    /\ Start(t, "staticize_once", <<>>, NoRef)
    /\ site' = [site EXCEPT ![t] = s]
    /\ arg' = [arg EXCEPT ![t] = Empty]
    /\ stack' = [stack EXCEPT ![t] = <<"idle">>]
    /\ pc' = [pc EXCEPT ![t] = "call_once"]
    /\ UNCHANGED << poolVars, mutex, onceVars >>

\* Once::call_once may run the closure: only from the incomplete state.
\* Variant: also while another caller is running it.
MayRun_WhileRunning(c) == onceState[c] \in {"incomplete", "running"}

\* Variant: also after a closure that panicked.
MayRun_AfterPoison(c) == onceState[c] \in {"incomplete", "poisoned"}

\* Variant: also when the cached string is no longer in the pool.
MayRun_IfUntracked(c) ==
    \/ onceState[c] = "incomplete"
    \/ onceState[c] = "complete" /\ gensym[c] \notin pool

MayRun(c) == onceState[c] = "incomplete"

\* Once::is_completed, the fast path of call_once.  Variant: a caller that
\* finds the closure running does not wait for it.
IsCompleted_OrRunning(c) == onceState[c] \in {"complete", "running"}

IsCompleted(c) == onceState[c] = "complete"

\* INIT.call_once(|| ...): complete, return at once; incomplete, become the
\* caller that runs the closure; running, wait.
CallOnce(t) ==
    /\ pc[t] = "call_once"
    /\ LET c == Cell(site[t]) IN
         \/ /\ IsCompleted(c)
            /\ pc' = [pc EXCEPT ![t] = "once_read"]
            /\ UNCHANGED onceState
         \/ /\ MayRun(c)
            /\ onceState' = [onceState EXCEPT ![c] = "running"]
            /\ pc' = [pc EXCEPT ![t] = "expr"]
    /\ UNCHANGED << poolVars, mutex, gensym, called, returned, stack, op, arg,
                    site, ret, flag, margs, calls >>

\* $expr is evaluated (its side effect counted) and its value goes to
\* staticize: a block that yields a string directly, or a block that calls
\* static_format! first.
OnceExpr(t) ==
    /\ pc[t] = "expr"
    /\ called' = [called EXCEPT ![site[t]] = @ + 1]
    /\ IF SiteInterns(site[t])
       THEN /\ arg' = [arg EXCEPT ![t] =
                          Format(Head(SiteFormat(site[t])), Tail(SiteFormat(site[t])))]
            /\ stack' = [stack EXCEPT ![t] = <<"expr_done">> \o @]
       ELSE /\ arg' = [arg EXCEPT ![t] = SiteText(site[t])]
            /\ stack' = [stack EXCEPT ![t] = <<"store">> \o @]
    /\ pc' = [pc EXCEPT ![t] = "lock"]
    /\ UNCHANGED << poolVars, mutex, onceState, gensym, returned, op, site, ret,
                    flag, margs, calls >>

\* The inner static_format! has returned a &'static str: staticize($expr)
\* converts it into a String and interns that.
OnceExprDone(t) ==
    /\ pc[t] = "expr_done"
    /\ arg' = [arg EXCEPT ![t] = ContentOf(ret[t])]
    /\ stack' = [stack EXCEPT ![t] = <<"store">> \o @]
    /\ pc' = [pc EXCEPT ![t] = "lock"]
    /\ UNCHANGED << poolVars, mutex, onceVars, op, site, ret, flag, margs, calls >>

\* $gensym = staticize($expr); the closure ends and INIT becomes complete.
OnceStore(t) ==
    /\ pc[t] = "store"
    /\ LET c == Cell(site[t]) IN
         /\ gensym' = [gensym EXCEPT ![c] = ret[t]]
         /\ onceState' = [onceState EXCEPT ![c] = "complete"]
    /\ pc' = [pc EXCEPT ![t] = "once_read"]
    /\ UNCHANGED << poolVars, mutex, called, returned, stack, op, arg, site, ret,
                    flag, margs, calls >>

\* unsafe { $gensym }: the value of the macro
OnceRead(t) ==
    /\ pc[t] = "once_read"
    /\ LET r == gensym[Cell(site[t])] IN
         /\ Return(t, r)
         /\ returned' = [returned EXCEPT ![site[t]] = @ \cup {r}]
    /\ UNCHANGED << poolVars, mutex, onceState, gensym, called, op, arg, site,
                    flag, margs, calls >>

Next ==
    \E t \in Threads :
        \/ \E s \in Texts : CallStaticize(t, s)
        \/ StaticizeLock(t)
        \/ StaticizeGet(t)
        \/ StaticizeInsert(t)
        \/ \E s \in Texts : CallIsStaticized(t, s)
        \/ IsStaticizedLock(t)
        \/ IsStaticizedContains(t)
        \/ \E s \in Texts : CallDestaticize(t, s)
        \/ DestaticizeLock(t)
        \/ DestaticizeRemove(t)
        \/ \E frags \in ConcatCalls : CallStaticConcat(t, frags)
        \/ \E m \in FormatCalls : CallStaticFormat(t, m)
        \/ \E s \in Sites : CallStaticizeOnce(t, s)
        \/ CallOnce(t)
        \/ OnceExpr(t)
        \/ OnceExprDone(t)
        \/ OnceStore(t)
        \/ OnceRead(t)

Spec == Init /\ [][Next]_vars

\* ------------------------------------------------------------------------
\* Panics
\* ------------------------------------------------------------------------
\* Thread t is inside the closure given to INIT.call_once.
InClosure(t) ==
    /\ site[t] # 0
    /\ pc[t] \in {"expr", "lock", "get", "insert", "expr_done", "store"}

\* Thread t panics and its call ends without a value.  Unwinding out of the
\* closure of call_once poisons INIT.  Variant: INIT is reset instead, so
\* that a later caller tries again.
Unwind_Reset(t) ==
    /\ pc' = [pc EXCEPT ![t] = "idle"]
    /\ stack' = [stack EXCEPT ![t] = <<>>]
    /\ ret' = [ret EXCEPT ![t] = Panicked]
    /\ onceState' = IF site[t] # 0 /\ pc[t] \in {"expr", "lock", "get", "insert", "expr_done", "store"}
                    THEN [onceState EXCEPT ![Cell(site[t])] = "incomplete"]
                    ELSE onceState

Unwind(t) ==
    /\ pc' = [pc EXCEPT ![t] = "idle"]
    /\ stack' = [stack EXCEPT ![t] = <<>>]
    /\ ret' = [ret EXCEPT ![t] = Panicked]
    /\ onceState' = IF InClosure(t)
                    THEN [onceState EXCEPT ![Cell(site[t])] = "poisoned"]
                    ELSE onceState

\* $expr panics.
OnceExprPanics(t) ==
    /\ pc[t] = "expr"
    /\ called' = [called EXCEPT ![site[t]] = @ + 1]
    /\ Unwind(t)
    /\ UNCHANGED << poolVars, mutex, gensym, returned, op, arg, site, flag,
                    margs, calls >>

\* call_once on a poisoned INIT panics, for a caller that arrives and for
\* one that was waiting.
MayPanicOnce(c) == onceState[c] = "poisoned"

OncePoisoned(t) ==
    /\ pc[t] = "call_once"
    /\ MayPanicOnce(Cell(site[t]))
    /\ Unwind(t)
    /\ UNCHANGED << poolVars, mutex, gensym, called, returned, op, arg, site,
                    flag, margs, calls >>

\* The pcs at which a thread asks for the Mutex.
LockPcs == {"lock", "is_lock", "de_lock", "dbg_lock"}

\* .lock().unwrap() on the poisoned Mutex: lock() gives Err(PoisonError) and
\* unwrap panics; the guard inside the error is dropped.
LockPoisoned(t) ==
    /\ pc[t] \in LockPcs
    /\ lock = NoThread
    /\ poisoned
    /\ Unwind(t)
    /\ UNCHANGED << poolVars, mutex, gensym, called, returned, op, arg, site,
                    flag, margs, calls >>

\* println!("{:?}", STATIC_STRINGS.lock().unwrap()) in tests::test_destaticize:
\* the one place that holds the guard while other code (the printing) runs.
CallDebugPrint(t) ==
    /\ Start(t, "debug_print", <<>>, NoRef)
    /\ site' = [site EXCEPT ![t] = 0]
    /\ pc' = [pc EXCEPT ![t] = "dbg_lock"]
    /\ UNCHANGED << poolVars, mutex, onceVars, stack, arg >>

DebugLock(t) ==
    /\ pc[t] = "dbg_lock"
    /\ Acquire(t)
    /\ pc' = [pc EXCEPT ![t] = "dbg_print"]
    /\ UNCHANGED << poolVars, onceVars, stack, op, arg, site, ret, flag, margs, calls >>

\* The set is printed and the guard dropped.
DebugPrint(t) ==
    /\ pc[t] = "dbg_print"
    /\ Release(t)
    /\ pc' = [pc EXCEPT ![t] = "idle"]
    /\ UNCHANGED << poolVars, onceVars, stack, op, arg, site, ret, flag, margs, calls >>

\* The printing panics: the guard is dropped during unwinding, which poisons
\* the Mutex.
DebugPrintPanics(t) ==
    /\ pc[t] = "dbg_print"
    /\ poisoned' = TRUE
    /\ lock' = NoThread
    /\ Unwind(t)
    /\ UNCHANGED << poolVars, gensym, called, returned, op, arg, site, flag,
                    margs, calls >>

\* The steps of the program with panics.
NextPanic ==
    \/ Next
    \/ \E t \in Threads :
        \/ OnceExprPanics(t)
        \/ OncePoisoned(t)
        \/ LockPoisoned(t)
        \/ CallDebugPrint(t)
        \/ DebugLock(t)
        \/ DebugPrint(t)
        \/ DebugPrintPanics(t)

SpecPanic == Init /\ [][NextPanic]_vars

\* ------------------------------------------------------------------------
\* Scheduling
\* ------------------------------------------------------------------------
\* A step of thread t inside a call it has started.
Step(t) ==
    \/ StaticizeLock(t)
    \/ StaticizeGet(t)
    \/ StaticizeInsert(t)
    \/ IsStaticizedLock(t)
    \/ IsStaticizedContains(t)
    \/ DestaticizeLock(t)
    \/ DestaticizeRemove(t)
    \/ CallOnce(t)
    \/ OnceExpr(t)
    \/ OnceExprDone(t)
    \/ OnceStore(t)
    \/ OnceRead(t)

\* Every thread that can take a step inside its call is scheduled at some
\* time; the blocks and conversions of the client terminate.
FairSpec == Spec /\ \A t \in Threads : WF_vars(Step(t))

\* ------------------------------------------------------------------------
\* Properties
\* ------------------------------------------------------------------------
\* Thread t has returned from a top-level call o.
After(t, o) == pc[t] = "idle" /\ op[t] = o

\* This step is thread t leaving the place `from`.
Leaves(t, from) == pc[t] = from /\ pc'[t] # from

\* This step is thread t returning from a top-level call.
Returns(t) == pc'[t] = "idle" /\ (pc[t] # "idle" \/ calls'[t] # calls[t])

\* C1: at every staticize_once! call site the wrapped block is evaluated at
\* most once, exactly once as soon as a call of the site has returned, and
\* all calls of the site return the one reference stored in its cell.
OnceExactlyOnce ==
    \A s \in Sites :
        /\ called[s] <= 1
        /\ Cardinality(returned[s]) <= 1
        /\ returned[s] # {} => called[s] = 1 /\ returned[s] = {gensym[s]}
        /\ \A t \in Threads :
               After(t, "staticize_once") /\ site[t] = s => ret[t] = gensym[s]

\* Every thread has made all its calls at one call site and has returned.
OnceWitness ==
    \E s \in Sites :
        /\ called[s] = 1
        /\ \A t \in Threads :
               /\ After(t, "staticize_once") /\ site[t] = s
               /\ calls[t] = MaxCalls
               /\ ret[t] = gensym[s] /\ ret[t] >= 1

\* C2: the pool never tracks two entries of the same content.
PoolUnique ==
    \A a, b \in pool : ContentOf(a) = ContentOf(b) => a = b

\* Two contents are tracked, after an entry was removed and its content
\* interned again.
PoolUniqueWitness ==
    /\ Cardinality(pool) >= 2
    /\ \E r \in evicted : TrackedContent(ContentOf(r))

\* C3: staticize of a content that is tracked leaves the pool and the leaked
\* allocations as they are and returns the tracked entry, which is the
\* reference the previous staticize of that content returned.
StaticizeIdempotent ==
    [][\A t \in Threads :
          Leaves(t, "get") /\ TrackedContent(arg[t]) =>
              /\ pool' = pool
              /\ leaked' = leaked
              /\ ret'[t] \in pool
              /\ ContentOf(ret'[t]) = arg[t]
              /\ ret'[t] = last[arg[t]]]_vars

\* Two threads have interned the same content and hold the same allocation.
StaticizeIdempotentWitness ==
    \E t, u \in Threads :
        /\ t # u
        /\ After(t, "staticize") /\ After(u, "staticize")
        /\ arg[t] = arg[u]
        /\ ret[t] = ret[u] /\ ret[t] >= 1
        /\ Len(leaked) = 1

\* C4: staticize(s) returns a reference whose content is s, and two calls
\* with equal content return equal contents.
StaticizeContent ==
    \A t \in Threads :
        After(t, "staticize") =>
            /\ ret[t] \in DOMAIN leaked
            /\ ContentOf(ret[t]) = arg[t]
            /\ \A u \in Threads :
                   After(u, "staticize") /\ arg[u] = arg[t] =>
                       ContentOf(ret[u]) = ContentOf(ret[t])

\* Two threads hold different allocations of one non-empty content: one was
\* interned before the content was removed, the other after.
StaticizeContentWitness ==
    \E t, u \in Threads :
        /\ After(t, "staticize") /\ After(u, "staticize")
        /\ arg[t] = arg[u] /\ arg[t] # Empty
        /\ ret[t] < ret[u]
        /\ ret[t] \in evicted

\* C5: is_staticized(s) returns true exactly when the last operation that
\* changed the tracking of s was a staticize(s): false when s was never
\* interned or was removed since.
IsStaticizedHistory ==
    [][\A t \in Threads :
          Leaves(t, "is_contains") =>
              flag'[t] = (hist[arg[t]] = "in")]_vars

\* is_staticized has answered false for a content that destaticize removed.
IsStaticizedWitness ==
    \E t, u \in Threads :
        /\ After(t, "is_staticized") /\ After(u, "destaticize")
        /\ arg[t] = arg[u]
        /\ flag[u] /\ ~flag[t]
        /\ hist[arg[t]] = "out"

\* C6: destaticize(s) returns whether s was tracked when it ran, s is not
\* tracked afterwards, and it returns false when the last change of s's
\* tracking was a removal.
DestaticizeResult ==
    [][\A t \in Threads :
          Leaves(t, "de_remove") =>
              /\ flag'[t] = TrackedContent(arg[t])
              /\ \A r \in pool' : ContentOf(r) # arg[t]
              /\ hist[arg[t]] = "out" => ~flag'[t]]_vars

\* Two destaticize calls of one content: the first returned true, the
\* second false.
DestaticizeWitness ==
    \E t, u \in Threads :
        /\ After(t, "destaticize") /\ After(u, "destaticize")
        /\ arg[t] = arg[u]
        /\ flag[t] /\ ~flag[u]
        /\ hist[arg[t]] = "out"

\* C7: staticize of a content that is not tracked (never, or removed) leaks a
\* new allocation with that content, different from all earlier ones, and
\* tracks it; a removed allocation is never tracked again.
ReinsertFresh ==
    [][/\ pool' \cap evicted' = {}
       /\ \A t \in Threads :
             Leaves(t, "insert") =>
                 /\ ret'[t] \notin DOMAIN leaked
                 /\ ret'[t] \notin evicted
                 /\ ret'[t] \in pool'
                 /\ ret'[t] \in DOMAIN leaked'
                 /\ leaked'[ret'[t]] = arg[t]]_vars

\* staticize, destaticize, staticize of one content: the last call holds a
\* tracked allocation, the removed one holds the same content.
ReinsertWitness ==
    \E t \in Threads :
        /\ After(t, "staticize")
        /\ ret[t] \in pool
        /\ \E r \in evicted :
               /\ r # ret[t]
               /\ ContentOf(r) = arg[t]
               /\ ContentOf(ret[t]) = arg[t]

\* The references the program holds.
HeldRefs ==
    { ret[t] : t \in Threads } \cup { gensym[s] : s \in Sites }
        \cup UNION { returned[s] : s \in Sites } \cup pool \cup evicted

\* C8: no step removes or alters a leaked allocation, and every reference
\* held is the literal or a leaked allocation.
LeakedOnlyGrows ==
    [][/\ Len(leaked') >= Len(leaked)
       /\ \A i \in DOMAIN leaked : leaked'[i] = leaked[i]
       /\ \A r \in HeldRefs' : r = NoRef \/ r = LitEmpty \/ r \in DOMAIN leaked']_vars

\* A staticize_once! call site keeps an allocation that destaticize removed
\* from the pool.
LeakedWitness ==
    \E s \in Sites :
        /\ onceState[s] = "complete"
        /\ gensym[s] \in evicted
        /\ ContentOf(gensym[s]) = SiteText(s)

\* C9: the state of a call site's cell changes only in steps of a thread
\* that is in that call site; each call site evaluates its block at most
\* once, and exactly once when complete; two complete call sites hold the
\* same allocation unless the earlier one was removed from the pool.
SitesIndependent ==
    [][/\ \A s \in Sites :
             onceState'[s] # onceState[s] =>
                 \E t \in Threads : site[t] = s /\ pc'[t] # pc[t]
       /\ \A s \in Sites :
             /\ called'[s] <= 1
             /\ onceState'[s] = "complete" => called'[s] = 1
             /\ returned'[s] # {} => onceState'[s] = "complete"
       /\ \A s, u \in Sites :
             /\ onceState'[s] = "complete" /\ onceState'[u] = "complete"
             /\ gensym'[s] < gensym'[u]
             => gensym'[s] \in evicted']_vars

\* Both call sites are complete, each after one evaluation, with the same
\* allocation.
SitesWitness ==
    /\ \A s \in Sites : onceState[s] = "complete" /\ called[s] = 1
    /\ gensym[1] = gensym[2] /\ gensym[1] >= 1
    /\ \E t, u \in Threads :
          /\ After(t, "staticize_once") /\ site[t] = 1
          /\ After(u, "staticize_once") /\ site[u] = 2

\* The text a static_concat! / static_format! invocation makes.
MacroText(t) ==
    IF op[t] = "static_concat" THEN Concat(margs[t])
    ELSE IF margs[t] = <<>> THEN Empty
    ELSE Format(Head(margs[t]), Tail(margs[t]))

IsHelper(t) == op[t] \in {"static_concat", "static_format"}

\* C10 as stated: static_concat! and static_format! return the concatenated
\* / formatted text, and the returned string is tracked when they return.
HelperTracked ==
    [][\A t \in Threads :
          Returns(t) /\ IsHelper(t)' =>
              /\ ContentOf(ret[t])' = MacroText(t)'
              /\ ret'[t] \in pool']_vars

\* C10 amended: the same with at least one argument; with no argument the
\* helper returns the "" literal and leaves the pool alone.
HelperTrackedNonEmpty ==
    [][\A t \in Threads :
          Returns(t) /\ IsHelper(t)' =>
              /\ ContentOf(ret[t])' = MacroText(t)'
              /\ margs'[t] # <<>> => ret'[t] \in pool'
              /\ margs'[t] = <<>> =>
                     ret'[t] = LitEmpty /\ pool' = pool /\ leaked' = leaked]_vars

\* static_concat!("a", "b") and static_format!("{}b", "a") have returned the
\* same tracked allocation of "ab".
HelperWitness ==
    \E t, u \in Threads :
        /\ After(t, "static_concat") /\ margs[t] = << <<"a">>, <<"b">> >>
        /\ After(u, "static_format") /\ margs[u] = << <<Hole, "b">>, <<"a">> >>
        /\ ret[t] = ret[u] /\ ret[t] \in pool
        /\ ContentOf(ret[t]) = <<"a", "b">>

\* The pool a sequential execution of the calls made so far would hold.
SeqPool == { last[c] : c \in Texts } \ {NoRef}

\* The pcs at which a thread holds the guard in staticize, is_staticized or
\* destaticize.
CritPcs == {"get", "insert", "is_contains", "de_remove"}

\* C11: the pool functions are linearizable: each call takes effect in one
\* step under the guard (for staticize that misses: the lookup and the
\* insertion with no other call's effect between them), its result and its
\* effect are those of the sequential function on the pool that the order of
\* these steps has built, only the holder of the guard changes the pool, and
\* at most one thread is under the guard.
Linearizable ==
    [][/\ pool' = SeqPool'
       /\ pool' # pool =>
              \E t \in Threads : lock = t /\ lock' = NoThread /\ pc'[t] # pc[t]
       /\ \A t, u \in Threads :
              pc'[t] \in CritPcs /\ pc'[u] \in CritPcs => t = u /\ lock' = t
       /\ \A t \in Threads :
              /\ Leaves(t, "get") =>
                     /\ last' = last
                     /\ IF last[arg[t]] # NoRef
                        THEN pc'[t] # "insert" /\ ret'[t] = last[arg[t]]
                        ELSE pc'[t] = "insert"
              /\ Leaves(t, "insert") =>
                     /\ last[arg[t]] = NoRef
                     /\ last' = [last EXCEPT ![arg[t]] = ret'[t]]
              /\ Leaves(t, "is_contains") =>
                     /\ last' = last
                     /\ flag'[t] = (last[arg[t]] # NoRef)
              /\ Leaves(t, "de_remove") =>
                     /\ last' = [last EXCEPT ![arg[t]] = NoRef]
                     /\ flag'[t] = (last[arg[t]] # NoRef)]_vars

\* A staticize that missed is about to insert while the other thread waits
\* for the guard to remove the same content, after an earlier removal.
LinearizableWitness ==
    \E t, u \in Threads :
        /\ pc[t] = "insert" /\ lock = t
        /\ pc[u] = "de_lock"
        /\ arg[t] = arg[u]
        /\ hist[arg[t]] = "out"

\* C12: when the wrapped block panics, INIT is poisoned and stays poisoned:
\* the block is not evaluated again, the cell keeps its placeholder, and no
\* call of that call site returns a value.
OncePoisonedForever ==
    [][\A s \in Sites :
          /\ \A t \in Threads :
                 Leaves(t, "expr") /\ site[t] = s /\ ret'[t] = Panicked =>
                     onceState'[s] = "poisoned"
          /\ onceState[s] = "poisoned" =>
                 /\ onceState'[s] = "poisoned"
                 /\ called'[s] = called[s]
                 /\ called[s] = 1
                 /\ gensym'[s] = LitEmpty
                 /\ returned'[s] = {}
                 /\ \A t \in Threads :
                        site[t] = s /\ Returns(t) /\ op'[t] = "staticize_once" =>
                            ret'[t] = Panicked]_vars

\* The block of a call site panicked in one thread and the call of the other
\* thread at that call site panicked in call_once.
OncePoisonedWitness ==
    \E s \in Sites : \E t, u \in Threads :
        /\ t # u
        /\ onceState[s] = "poisoned" /\ called[s] = 1
        /\ After(t, "staticize_once") /\ site[t] = s /\ ret[t] = Panicked
        /\ After(u, "staticize_once") /\ site[u] = s /\ ret[u] = Panicked
        /\ calls[t] + calls[u] >= 3

\* C13: once the Mutex is poisoned it stays poisoned, no thread gets the
\* guard, the pool and the leaked allocations stay as they are, and every
\* call that asks for the guard panics.
MutexPoisonedFatal ==
    [][poisoned =>
          /\ poisoned'
          /\ pool' = pool /\ leaked' = leaked
          /\ lock' = NoThread
          /\ \A t \in Threads :
                 /\ pc'[t] \notin CritPcs
                 /\ pc[t] \in LockPcs /\ pc'[t] # pc[t] =>
                        pc'[t] = "idle" /\ ret'[t] = Panicked]_vars

\* The printing panicked under the guard; the pool still holds an entry and a
\* later staticize has panicked.
MutexPoisonedWitness ==
    /\ poisoned
    /\ pool # {}
    /\ \E t, u \in Threads :
          /\ t # u
          /\ After(t, "staticize") /\ ret[t] = Panicked
          /\ After(u, "debug_print") /\ ret[u] = Panicked

\* C14: a call of a staticize_once! call site reads the cell only when INIT
\* is complete, so it returns the reference the closure stored, a leaked
\* allocation and never the placeholder; and at most one thread is inside
\* the closure of a call site, exactly when INIT is running.
OnceWaits ==
    /\ \A t \in Threads :
          /\ pc[t] = "once_read" => onceState[site[t]] = "complete"
          /\ After(t, "staticize_once") /\ ret[t] # Panicked =>
                 /\ onceState[site[t]] = "complete"
                 /\ ret[t] # LitEmpty
                 /\ ret[t] \in DOMAIN leaked
                 /\ ContentOf(ret[t]) = SiteText(site[t])
    /\ \A s \in Sites :
          /\ LitEmpty \notin returned[s]
          /\ Cardinality({ t \in Threads : InClosure(t) /\ site[t] = s }) =
                 IF onceState[s] = "running" THEN 1 ELSE 0

\* One thread is inside the closure, past the block, while the other waits
\* in call_once at the same call site.
OnceWaitsWitness ==
    \E s \in Sites : \E t, u \in Threads :
        /\ site[t] = s /\ pc[t] = "store"
        /\ site[u] = s /\ pc[u] = "call_once"
        /\ onceState[s] = "running" /\ called[s] = 1

\* C15 as stated: INIT of a call site is incomplete, running or complete,
\* moves only from incomplete to running and from running to complete, also
\* when the wrapped block panics, and a complete cell never changes.
OnceThreeStates ==
    [][\A s \in Sites :
          /\ onceState'[s] \in {"incomplete", "running", "complete"}
          /\ onceState'[s] # onceState[s] =>
                 << onceState[s], onceState'[s] >> \in
                     { <<"incomplete", "running">>, <<"running", "complete">> }
          /\ onceState[s] = "complete" =>
                 onceState'[s] = "complete" /\ gensym'[s] = gensym[s]]_vars

\* C15 amended: a fourth state, poisoned, is entered from running when the
\* wrapped block panics, and is never left.
OnceFourStates ==
    [][\A s \in Sites :
          /\ onceState'[s] \in {"incomplete", "running", "complete", "poisoned"}
          /\ onceState'[s] # onceState[s] =>
                 << onceState[s], onceState'[s] >> \in
                     { <<"incomplete", "running">>, <<"running", "complete">>,
                       <<"running", "poisoned">> }
          /\ onceState'[s] = "poisoned" /\ onceState[s] = "running" =>
                 \E t \in Threads : site[t] = s /\ ret'[t] = Panicked /\ pc[t] # "idle"
          /\ onceState[s] = "complete" =>
                 onceState'[s] = "complete" /\ gensym'[s] = gensym[s]
          /\ onceState[s] = "poisoned" => onceState'[s] = "poisoned"]_vars

\* One call site is complete and was called again, the other is poisoned and
\* was called again.
OnceStatesWitness ==
    \E s, u \in Sites :
        /\ onceState[s] = "complete" /\ gensym[s] >= 1
        /\ onceState[u] = "poisoned"
        /\ \E t \in Threads :
               After(t, "staticize_once") /\ site[t] = u /\ calls[t] = MaxCalls
        /\ \A t \in Threads : calls[t] = MaxCalls /\ pc[t] = "idle"

\* The tracked entries of content c.
EntriesOf(c) == { r \in pool : ContentOf(r) = c }

\* C16: is_staticized changes neither the pool nor the leaked allocations;
\* destaticize(s) frees nothing and, like staticize(s), leaves the entry of
\* every content other than s as it is.
PoolFrame ==
    [][\A t \in Threads :
          /\ Leaves(t, "is_contains") \/ Leaves(t, "is_lock") =>
                 pool' = pool /\ leaked' = leaked
          /\ Leaves(t, "de_remove") \/ Leaves(t, "de_lock") =>
                 /\ leaked' = leaked
                 /\ pool' \subseteq pool
                 /\ \A c \in Texts \ {arg[t]} : EntriesOf(c)' = EntriesOf(c)
          /\ Leaves(t, "lock") \/ Leaves(t, "get") \/ Leaves(t, "insert") =>
                 /\ pool \subseteq pool'
                 /\ \A i \in DOMAIN leaked : leaked'[i] = leaked[i]
                 /\ \A c \in Texts \ {arg[t]} : EntriesOf(c)' = EntriesOf(c)]_vars

\* destaticize has removed one content while another stays tracked, and
\* is_staticized has confirmed the other.
PoolFrameWitness ==
    \E t, u \in Threads :
        /\ After(t, "destaticize") /\ flag[t]
        /\ After(u, "is_staticized") /\ flag[u]
        /\ arg[t] # arg[u]
        /\ ~TrackedContent(arg[t]) /\ TrackedContent(arg[u])

\* C17: a call of a complete call site goes through call_once and the read
\* of the cell without asking for the Mutex, changes neither the pool nor
\* the cell, and returns the cached reference; when that reference was
\* removed from the pool it stays out of the pool, and a staticize of the
\* same content returns another allocation.
OnceHotPath ==
    [][\A t \in Threads :
          /\ Leaves(t, "call_once") /\ onceState[site[t]] = "complete" =>
                 /\ pc'[t] = "once_read"
                 /\ pool' = pool /\ leaked' = leaked /\ lock' = lock
                 /\ onceState' = onceState /\ called' = called
          /\ Leaves(t, "once_read") =>
                 /\ pc'[t] = "idle"
                 /\ pool' = pool /\ leaked' = leaked /\ lock' = lock
                 /\ gensym' = gensym /\ onceState' = onceState
                 /\ ret'[t] = gensym[site[t]]
          /\ \A s \in Sites :
                 onceState[s] = "complete" /\ gensym[s] \in evicted =>
                     /\ gensym[s] \notin pool'
                     /\ Returns(t) /\ op'[t] # "staticize_once" =>
                            ret'[t] # gensym[s]]_vars

\* A call site was called again after its cached string was removed and
\* returned it once more, and a staticize of the same content returned
\* another, tracked allocation.
OnceHotPathWitness ==
    \E s \in Sites : \E t, u \in Threads :
        /\ onceState[s] = "complete" /\ gensym[s] \in evicted
        /\ After(t, "staticize_once") /\ site[t] = s /\ calls[t] = 2
        /\ ret[t] = gensym[s]
        /\ After(u, "staticize") /\ arg[u] = ContentOf(gensym[s])
        /\ ret[u] \in pool /\ ret[u] # gensym[s]
        /\ ~(\E r \in pool : r = gensym[s])

\* C18: the guard is held only between the lookup and the end of a pool
\* function, never while a block of the client runs or while a thread waits
\* in call_once; and under fair scheduling every call that was started
\* returns.
CallsReturn ==
    /\ [](\A t \in Threads : lock = t => pc[t] \in CritPcs)
    /\ \A t \in Threads : (pc[t] # "idle") ~> (pc[t] = "idle")

\* Both threads have returned from calling the call site whose block interns
\* a string itself.
CallsReturnWitness ==
    /\ \A t \in Threads :
          /\ After(t, "staticize_once") /\ site[t] = 2
          /\ ret[t] = gensym[2]
          /\ calls[t] = 1
    /\ called[2] = 1 /\ lock = NoThread

====
